---- MODULE Spec2Model ----
(***************************************************************************)
(* The call session multiplexer of websocket-server: the telephony handler *)
(* (main.py, websocket_call_endpoint), the Session / OpenAISession methods *)
(* and the session registry (sessions.py), the session.update wire model   *)
(* (api/openai.py) and the durable log sink (api/firestore.py).            *)
(*                                                                         *)
(* Scheduling is asyncio's: one event loop, and a task runs without        *)
(* interruption from one suspension to the next.  An action of this module *)
(* is the code a task runs between two suspensions.  The suspensions are   *)
(* the awaits of I/O (receive_text, send, send_json, close, connect, the   *)
(* next message of the model connection) and the await of a task; awaiting *)
(* a coroutine that does no I/O (sessions.get, sessions.create) does not   *)
(* suspend.                                                                *)
(*                                                                         *)
(* Every telephony handler accepts one connection, attaches it at most     *)
(* once, and so spawns at most one connect_model task, which opens at most *)
(* one model connection and creates at most one listener task.  Handlers,  *)
(* Session instances (named by the handler that constructed them),         *)
(* connect_model tasks, model connections and listener tasks are therefore *)
(* all indexed by Handlers.                                                *)
(*                                                                         *)
(* What the libraries do is taken from their documented behaviour: close   *)
(* and send on a connection that is closed raise, the model connection has *)
(* the `closed` attribute the listener reads, and the durable log accepts  *)
(* a write once the call document exists.                                  *)
(***************************************************************************)
EXTENDS Integers, Sequences, FiniteSets, TLC

None == "None"

Handlers == {"h1", "h2"}
CallIds == {"CA1"}
\* Audio payloads of telephony media frames ("" is the empty payload) and
\* audio deltas of the model.
Payloads == {"", "ABCD"}
Deltas == {"WXYZ"}

\* Main-loop frames the handlers read in all, besides those that end a leg,
\* and messages the listeners read in all.
MaxFrames == 2
MaxMsgs == 2
\* Calls of set_websocket a caller of the Session API makes.
MaxSets == 3
\* Calls of close_connections a caller of the Session API makes.
MaxEnds == 2

\* main.py:81, the handshake inspects the first N frames.
N == 10

\* Connections: the telephony websocket a handler accepted, the model
\* websocket a connect_model task opened, and observer websockets.
Tw(h) == "tw_" \o h
Md(h) == "md_" \o h
Ob(n) == "ob_" \o n
TwConns == {Tw(h) : h \in Handlers}
MdConns == {Md(h) : h \in Handlers}
ObConns == {Ob(n) : n \in {"o1", "o2"}}
Conns == TwConns \cup MdConns \cup ObConns

VARIABLES
    \* sessions._active_sessions: call id -> Session instance
    registry,
    \* Session fields, per instance (stream_sid = None: not constructed)
    \* and the arguments its SessionConfig was constructed from
    stream_sid, config, given, ws_twilio, ws_frontend, ws_model,
    is_model_connected, model_listener,
    \* websocket_call_endpoint, per handler: position, local `session`,
    \* handshake index i; main-loop frames read by all handlers
    pc, session, i, nframes,
    \* a call of sessions.remove in progress: the popped Session, the
    \* listener task awaited, the connections close_connections still has
    \* to close, where the handler continues; a send_to_websocket(MODEL)
    \* and a set_websocket in progress
    popped, waiting, closing, cont, sending, setting,
    \* connections: unopened | open | closed, and what was written to each
    cstate, sent,
    \* connect_model tasks
    tpc, tsess,
    \* listener tasks: position, the connection iterated, pending
    \* cancellation; messages read by all listeners
    lpc, lconn, lcancel, nmsgs,
    \* how often the finally clause of a listener task has run
    cleanups,
    \* firestore: call id -> events of the call document (None: no document)
    docs,
    \* history: how often close_connections was invoked on and has
    \* completed for a Session; the media frames the handlers read and the
    \* messages the listeners read, each with what the Session held then
    endCalls, endDone, frameLog, msgLog,
    \* calls of set_websocket made through the Session API, and, per caller,
    \* the last call of set_websocket that returned: its arguments, the
    \* slot's content at the call and the connections it called close on
    nsets, setDone

sessVars == <<stream_sid, config, given, ws_twilio, ws_frontend, ws_model,
              is_model_connected, model_listener>>
hVars == <<pc, session, i, nframes, popped, waiting, closing, cont, sending, setting>>
connVars == <<cstate, sent>>
taskVars == <<tpc, tsess>>
lVars == <<lpc, lconn, lcancel, nmsgs, cleanups>>
histVars == <<endCalls, endDone>>
logVars == <<frameLog, msgLog>>
apiVars == <<nsets, setDone>>
vars == <<registry, sessVars, hVars, connVars, taskVars, lVars, docs, histVars,
          logVars, apiVars>>

----------------------------------------------------------------------------
(* api/openai.py: SessionConfig and SessionUpdateEvent *)

Fields == {"client_secret", "input_audio_format", "input_audio_noise_reduction",
           "input_audio_transcription", "instructions",
           "max_response_output_tokens", "modalities", "model",
           "output_audio_format", "temperature", "tool_choice", "tools",
           "turn_detection", "voice"}

\* The default of a field the caller does not set (Field(None, ...), and
\* Field("inf", ...) for max_response_output_tokens).
FieldDefault(f) == IF f = "max_response_output_tokens" THEN "inf" ELSE None

\* SessionConfig(**kw): kw is a function from the fields set to values.
SessionConfig(kw) ==
    [f \in Fields |-> IF f \in DOMAIN kw THEN kw[f] ELSE FieldDefault(f)]

\* model_dump(exclude_none=True): the fields whose value is not None.
ModelDump(cfg) ==
    LET keep == {f \in DOMAIN cfg : cfg[f] # None}
    IN  [f \in keep |-> cfg[f]]

\* SessionUpdateEvent(session=cfg).model_dump(exclude_none=True): event_id is
\* None and dropped, type is "session.update".
SessionUpdateEvent(cfg) == [type |-> "session.update", session |-> ModelDump(cfg)]

\* sessions.create: the arguments of init_config.
InitConfigArgs ==
    [f \in {"instructions", "output_audio_format", "voice", "input_audio_format",
            "input_audio_transcription", "turn_detection"} |->
        CASE f = "instructions" -> "You are a helpful AI assistant!"
          [] f = "output_audio_format" -> "g711_ulaw"
          [] f = "voice" -> "alloy"
          [] f = "input_audio_format" -> "g711_ulaw"
          [] f = "input_audio_transcription" -> "model=whisper-1"
          [] f = "turn_detection" -> "type=server_vad,create_response=true"]

----------------------------------------------------------------------------
(* frames and messages *)

\* Variants: an append event that loses its audio, a media frame that loses
\* its call id.
AppendEventEmpty(p) == [type |-> "input_audio_buffer.append", audio |-> ""]

MediaFrameNoSid(sid, d) ==
    [event |-> "media", streamSid |-> None, media |-> [payload |-> d]]

MediaFrame(sid, d) ==
    [event |-> "media", streamSid |-> sid, media |-> [payload |-> d]]
MarkFrame(sid) == [event |-> "mark", streamSid |-> sid,
                   name |-> "response_audio_chunk_sent"]
AppendEvent(p) == [type |-> "input_audio_buffer.append", audio |-> p]

IsOpen(c) == cstate[c] = "open"

\* ws.close(...) on connection c: an open connection becomes closed; on a
\* connection already closed the call raises, which every caller swallows.
CloseOf(cs, c) == IF cs[c] = "open" THEN [cs EXCEPT ![c] = "closed"] ELSE cs

\* A write that puts the message before those already written.
WriteOfFront(st, cs, c, m) == IF cs[c] = "open" THEN [st EXCEPT ![c] = <<m>> \o @] ELSE st

\* A write on connection c: delivered when c is open, an exception otherwise.
WriteOf(st, cs, c, m) == IF cs[c] = "open" THEN [st EXCEPT ![c] = Append(@, m)] ELSE st

\* The record of the last call of set_websocket that returned, before any has.
NoCall == [s |-> None, role |-> None, ws |-> None, old |-> None, closed |-> {},
           bit |-> 0]

----------------------------------------------------------------------------
\* The state after the server has accepted the telephony connections of
\* the handlers in `active`; the other handlers never run.
InitWith(active) ==
    /\ registry = [c \in CallIds |-> None]
    /\ stream_sid = [s \in Handlers |-> None]
    /\ config = [s \in Handlers |-> None]
    /\ given = [s \in Handlers |-> None]
    /\ ws_twilio = [s \in Handlers |-> None]
    /\ ws_frontend = [s \in Handlers |-> None]
    /\ ws_model = [s \in Handlers |-> None]
    /\ is_model_connected = [s \in Handlers |-> FALSE]
    /\ model_listener = [s \in Handlers |-> None]
    /\ pc = [h \in Handlers |-> IF h \in active THEN "handshake" ELSE "off"]
    /\ session = [h \in Handlers |-> None]
    /\ i = [h \in Handlers |-> 0]
    /\ nframes = 0
    /\ popped = [h \in Handlers |-> None]
    /\ waiting = [h \in Handlers |-> None]
    /\ closing = [h \in Handlers |-> <<>>]
    /\ cont = [h \in Handlers |-> None]
    /\ sending = [h \in Handlers |-> None]
    /\ setting = [h \in Handlers |-> None]
    /\ cstate = [c \in Conns |-> IF c \in {Tw(h) : h \in active} THEN "open"
                                 ELSE "unopened"]
    /\ sent = [c \in Conns |-> <<>>]
    /\ tpc = [k \in Handlers |-> "none"]
    /\ tsess = [k \in Handlers |-> None]
    /\ lpc = [k \in Handlers |-> "none"]
    /\ lconn = [k \in Handlers |-> None]
    /\ lcancel = [k \in Handlers |-> FALSE]
    /\ nmsgs = 0
    /\ cleanups = [k \in Handlers |-> 0]
    /\ docs = [c \in CallIds |-> None]
    /\ endCalls = [s \in Handlers |-> 0]
    /\ endDone = [s \in Handlers |-> 0]
    /\ frameLog = <<>>
    /\ msgLog = <<>>
    /\ nsets = 0
    /\ setDone = [h \in Handlers |-> NoCall]

----------------------------------------------------------------------------
(* sessions.py: the registry *)

\* A lookup that misses an entry.
GetNone(reg, c) == None

\* sessions.get

Get(reg, c) == reg[c]

\* stream_sid in _active_sessions
In(reg, c) == reg[c] # None

\* sessions.create(c, key), `new` being the instance it would construct:
\* the Session returned, the registry afterwards, whether it was constructed.
Create(reg, c, new) ==
    IF In(reg, c) /\ Get(reg, c) # None
    THEN [s |-> Get(reg, c), reg |-> reg, fresh |-> FALSE]
    ELSE [s |-> new, reg |-> [reg EXCEPT ![c] = new], fresh |-> TRUE]

\* main.py: session = await sessions.get(sid); if not session: create.
GetOrCreate(reg, c, new) ==
    IF Get(reg, c) # None
    THEN [s |-> Get(reg, c), reg |-> reg, fresh |-> FALSE]
    ELSE Create(reg, c, new)

----------------------------------------------------------------------------
(* sessions.py: Session.set_websocket *)

\* A set_websocket that creates no task.
SpawnNone(k, s, c) == UNCHANGED <<tpc, tsess, docs>>

\* asyncio.create_task(self.connect_model()) as task k on Session s with
\* call id c.  The task's first step, up to its await of
\* websockets.connect, reads only immutable fields and writes the call
\* document (firestore.create_call_document sets it, with no events).
Spawn(k, s, c) ==
    /\ tpc' = [tpc EXCEPT ![k] = "connecting"]
    /\ tsess' = [tsess EXCEPT ![k] = s]
    /\ docs' = [docs EXCEPT ![c] = <<>>]

\* The record of a call of set_websocket that has returned; its bit
\* alternates from one return to the caller's next.
Returned(sd, h, s, role, ws, old, closed) ==
    [sd EXCEPT ![h] = [s |-> s, role |-> role, ws |-> ws, old |-> old,
                       closed |-> closed, bit |-> 1 - sd[h].bit]]

\* set_websocket(TWILIO, ws) on Session s by caller h, whose connect_model
\* task gets index k; wt is the slot's content at the call (None for a
\* Session constructed in this step) and ret is where the caller continues.
\* A different connection in the slot is closed first, which suspends the
\* caller.
SetTwilio(h, s, c, ws, k, wt, ret) ==
    IF wt # None /\ wt # ws
    THEN /\ cstate' = CloseOf(cstate, wt)
         /\ setting' = [setting EXCEPT ![h] =
                           [s |-> s, role |-> "TWILIO", ws |-> ws, k |-> k,
                            old |-> wt, ret |-> ret]]
         /\ pc' = [pc EXCEPT ![h] = "set_close"]
         /\ UNCHANGED <<ws_twilio, tpc, tsess, docs, setDone>>
    ELSE /\ ws_twilio' = [ws_twilio EXCEPT ![s] = ws]
         /\ Spawn(k, s, c)
         /\ pc' = [pc EXCEPT ![h] = ret]
         /\ setDone' = Returned(setDone, h, s, "TWILIO", ws, wt, {})
         /\ UNCHANGED <<cstate, setting>>

\* set_websocket(TWILIO): the close of the old connection has returned or
\* raised; the new connection is installed and connect_model is spawned.
SetTwilioDone(h) ==
    /\ pc[h] = "set_close"
    /\ setting[h].role = "TWILIO"
    /\ LET st == setting[h] IN
        /\ ws_twilio' = [ws_twilio EXCEPT ![st.s] = st.ws]
        /\ Spawn(st.k, st.s, stream_sid[st.s])
        /\ pc' = [pc EXCEPT ![h] = st.ret]
        /\ setDone' = Returned(setDone, h, st.s, "TWILIO", st.ws, st.old, {st.old})
    /\ setting' = [setting EXCEPT ![h] = None]
    /\ UNCHANGED <<registry, stream_sid, config, given, ws_frontend, ws_model,
                   is_model_connected, model_listener, session, i, nframes,
                   popped, waiting, closing, cont, sending, connVars, lVars,
                   histVars, logVars, nsets>>

\* The slot of a role.
SlotOf(s, role) ==
    CASE role = "TWILIO" -> ws_twilio[s]
      [] role = "FRONTEND" -> ws_frontend[s]
      [] role = "MODEL" -> ws_model[s]

\* set_websocket(FRONTEND | MODEL, ws) on Session s by caller h: only when
\* the slot holds a different connection is ws assigned to the slot, and
\* then close is called on the slot, which holds ws by then (a suspension).
SetOther(h, s, role, ws, ret) ==
    LET old == SlotOf(s, role) IN
    IF old # None /\ old # ws
    THEN /\ ws_frontend' = IF role = "FRONTEND"
                           THEN [ws_frontend EXCEPT ![s] = ws] ELSE ws_frontend
         /\ ws_model' = IF role = "MODEL"
                        THEN [ws_model EXCEPT ![s] = ws] ELSE ws_model
         /\ cstate' = CloseOf(cstate, ws)
         /\ setting' = [setting EXCEPT ![h] =
                           [s |-> s, role |-> role, ws |-> ws, k |-> None,
                            old |-> old, ret |-> ret]]
         /\ pc' = [pc EXCEPT ![h] = "set_close"]
         /\ UNCHANGED setDone
    ELSE /\ setDone' = Returned(setDone, h, s, role, ws, old, {})
         /\ pc' = [pc EXCEPT ![h] = ret]
         /\ UNCHANGED <<ws_frontend, ws_model, cstate, setting>>

\* set_websocket(FRONTEND | MODEL): the close has returned or raised.
SetOtherDone(h) ==
    /\ pc[h] = "set_close"
    /\ setting[h].role # "TWILIO"
    /\ LET st == setting[h] IN
        /\ pc' = [pc EXCEPT ![h] = st.ret]
        /\ setDone' = Returned(setDone, h, st.s, st.role, st.ws, st.old, {st.ws})
    /\ setting' = [setting EXCEPT ![h] = None]
    /\ UNCHANGED <<registry, sessVars, session, i, nframes, popped, waiting,
                   closing, cont, sending, connVars, taskVars, lVars, docs,
                   histVars, logVars, nsets>>

----------------------------------------------------------------------------
(* main.py: websocket_call_endpoint, the handshake (lines 78-117) *)

\* A frame that is not a start event ('connected', 'media', ...): the loop
\* goes on, and after N frames falls through to the main loop with
\* session = None.  i is not read after the loop and is kept at 0 then.
HsOther(h) ==
    /\ pc[h] = "handshake"
    /\ IsOpen(Tw(h))
    /\ i' = [i EXCEPT ![h] = IF i[h] + 1 = N THEN 0 ELSE @ + 1]
    /\ pc' = [pc EXCEPT ![h] = IF i[h] + 1 = N THEN "loop" ELSE "handshake"]
    /\ UNCHANGED <<registry, sessVars, session, nframes, popped, waiting,
                   closing, cont, sending, setting, connVars, taskVars,
                   lVars, docs, histVars, logVars, apiVars>>

\* wait_for times out, the peer disconnects or the frame is not JSON: the
\* exception is raised outside any try and ends the handler.
HsFail(h) ==
    /\ pc[h] = "handshake"
    /\ pc' = [pc EXCEPT ![h] = "crashed"]
    /\ cstate' = CloseOf(cstate, Tw(h))
    /\ i' = [i EXCEPT ![h] = 0]
    /\ UNCHANGED <<registry, sessVars, session, nframes, popped, waiting,
                   closing, cont, sending, setting, sent, taskVars,
                   lVars, docs, histVars, logVars, apiVars>>

\* The start event with streamSid c: get or create the Session, attach this
\* connection, break.
HsStart(h, c) ==
    /\ pc[h] = "handshake"
    /\ IsOpen(Tw(h))
    /\ LET r == GetOrCreate(registry, c, h) IN
        /\ registry' = r.reg
        /\ stream_sid' = IF r.fresh THEN [stream_sid EXCEPT ![h] = c] ELSE stream_sid
        /\ given' = IF r.fresh THEN [given EXCEPT ![h] = InitConfigArgs] ELSE given
        /\ config' = IF r.fresh THEN [config EXCEPT ![h] = SessionConfig(InitConfigArgs)]
                     ELSE config
        /\ session' = [session EXCEPT ![h] = r.s]
        /\ SetTwilio(h, r.s, c, Tw(h), h, ws_twilio[r.s], "loop")
    /\ i' = [i EXCEPT ![h] = 0]
    /\ UNCHANGED <<ws_frontend, ws_model, is_model_connected, model_listener,
                   nframes, popped, waiting, closing, cont, sending, sent,
                   lVars, histVars, logVars, nsets>>

----------------------------------------------------------------------------
(* sessions.py: remove and OpenAISession.close_connections *)

\* Where the handler goes when sessions.remove has returned: back to
\* receive_text after a stop event; to its end after WebSocketDisconnect;
\* after any other exception it closes its connection with code 1011 unless
\* the client has disconnected, and ends.  A caller of the Session API
\* ("api") goes on with its next call.
AfterRemove(h, contv, cs) ==
    /\ pc' = [pc EXCEPT ![h] = IF contv \in {"loop", "api"} THEN contv ELSE "done"]
    /\ cstate' = IF contv = "errclose" THEN CloseOf(cs, Tw(h)) ELSE cs

\* The slots taken model first.
SlotsOfModelFirst(t) ==
    SelectSeq(<<ws_model[t], ws_frontend[t], ws_twilio[t]>>, LAMBDA w : w # None)

\* The slots close_connections goes through, in its order; an empty slot
\* takes no step.
SlotsOf(t) ==
    SelectSeq(<<ws_frontend[t], ws_twilio[t], ws_model[t]>>, LAMBDA w : w # None)

\* close_connections on Session t from its for loop on, `list` being the
\* connections still to close and cs the connections' states: close the
\* next one (a suspension), or, none being left, set is_model_connected
\* False and return.  `ws = None` in the loop's finally rebinds the loop
\* variable and leaves the slots as they are.
CloseFrom(h, t, list, cs, contv) ==
    IF list # <<>>
    THEN /\ cstate' = CloseOf(cs, Head(list))
         /\ closing' = [closing EXCEPT ![h] = list]
         /\ popped' = [popped EXCEPT ![h] = t]
         /\ cont' = [cont EXCEPT ![h] = contv]
         /\ pc' = [pc EXCEPT ![h] = "rm_close"]
         /\ UNCHANGED <<is_model_connected, endDone>>
    ELSE /\ is_model_connected' = [is_model_connected EXCEPT ![t] = FALSE]
         /\ endDone' = [endDone EXCEPT ![t] = @ + 1]
         /\ closing' = [closing EXCEPT ![h] = <<>>]
         /\ popped' = [popped EXCEPT ![h] = None]
         /\ cont' = [cont EXCEPT ![h] = None]
         /\ AfterRemove(h, contv, cs)

\* A pop that leaves the entry in place.
PopKeeps(reg, c) == reg

\* _active_sessions.pop(c, None): the registry afterwards.
Pop(reg, c) == [reg EXCEPT ![c] = None]

\* A check that leaves out `not self._model_listener.done()`.
NeedsCancelDone(l) == l # None

\* close_connections: `self._model_listener and not self._model_listener.done()`.
NeedsCancel(l) == l # None /\ lpc[l] # "done"

\* close_connections on Session t called by h, up to its first suspension:
\* a listener task that is not done is cancelled and awaited; otherwise the
\* for loop over the slots starts.
CloseConnections(h, t, contv) ==
    LET l == model_listener[t] IN
    /\ endCalls' = [endCalls EXCEPT ![t] = @ + 1]
    /\ IF NeedsCancel(l)
       THEN /\ lcancel' = [lcancel EXCEPT ![l] = TRUE]
            /\ waiting' = [waiting EXCEPT ![h] = l]
            /\ popped' = [popped EXCEPT ![h] = t]
            /\ cont' = [cont EXCEPT ![h] = contv]
            /\ pc' = [pc EXCEPT ![h] = "rm_wait"]
            /\ UNCHANGED <<is_model_connected, closing, cstate, endDone>>
       ELSE /\ CloseFrom(h, t, SlotsOf(t), cstate, contv)
            /\ UNCHANGED <<lcancel, waiting>>

\* sessions.remove(session.stream_sid, reason) called by handler h: pop the
\* entry of the call id; if there was one, close_connections on it, which
\* cancels a listener task that is not done and awaits it.
Remove(h, contv) ==
    LET c == stream_sid[session[h]]
        t == registry[c]
    IN  /\ registry' = Pop(registry, c)
        /\ IF t = None
           THEN /\ AfterRemove(h, contv, cstate)
                /\ UNCHANGED <<is_model_connected, popped, waiting, closing,
                               cont, lcancel, histVars>>
           ELSE CloseConnections(h, t, contv)

\* close_connections: the awaited listener task is done.
RmWaitDone(h) ==
    /\ pc[h] = "rm_wait"
    /\ lpc[waiting[h]] = "done"
    /\ waiting' = [waiting EXCEPT ![h] = None]
    /\ CloseFrom(h, popped[h], SlotsOf(popped[h]), cstate, cont[h])
    /\ UNCHANGED <<registry, stream_sid, config, given, ws_twilio, ws_frontend,
                   ws_model, model_listener, session, i, nframes, sending,
                   setting, sent, taskVars, lVars, docs, endCalls, logVars, apiVars>>

\* close_connections: a close has returned or raised; on to the next slot.
RmCloseStep(h) ==
    /\ pc[h] = "rm_close"
    /\ CloseFrom(h, popped[h], Tail(closing[h]), cstate, cont[h])
    /\ UNCHANGED <<registry, stream_sid, config, given, ws_twilio, ws_frontend,
                   ws_model, model_listener, session, i, nframes, waiting,
                   sending, setting, sent, taskVars, lVars, docs, endCalls,
                   logVars, apiVars>>

----------------------------------------------------------------------------
(* main.py: websocket_call_endpoint, the main loop (lines 119-142) *)

\* The main loop entered without a Session (no start event among the first
\* N frames): a media or stop event, an undecodable frame or a disconnect
\* dereferences session = None, in the try and again in its except clauses,
\* and the AttributeError ends the handler.
LoopNoSession(h) ==
    /\ pc[h] = "loop"
    /\ session[h] = None
    /\ pc' = [pc EXCEPT ![h] = "crashed"]
    /\ cstate' = CloseOf(cstate, Tw(h))
    /\ UNCHANGED <<registry, sessVars, session, i, nframes, popped, waiting,
                   closing, cont, sending, setting, sent, taskVars,
                   lVars, docs, histVars, logVars, apiVars>>

\* A send that does not consult is_model_connected.
ModelSendTargetNoFlag(s) == ws_model[s]

\* Session.send_to_websocket(MODEL, data) on Session s up to its await of
\* ws_model.send: whether the send is made, and on which connection.

ModelSendTarget(s) ==
    IF ws_model[s] # None /\ is_model_connected[s] THEN ws_model[s] ELSE None

\* A media event with payload p: forwarded to the model when the model slot
\* holds a connection and the payload is not empty.
LoopMedia(h, p) ==
    /\ pc[h] = "loop"
    /\ session[h] # None
    /\ IsOpen(Tw(h))
    /\ nframes < MaxFrames
    /\ nframes' = nframes + 1
    /\ LET s == session[h]
           m == IF ws_model[s] # None /\ p # "" THEN ModelSendTarget(s) ELSE None
       IN  /\ IF m # None
              THEN /\ sent' = WriteOf(sent, cstate, m, AppendEvent(p))
                   /\ sending' = [sending EXCEPT ![h] = m]
                   /\ pc' = [pc EXCEPT ![h] = "send"]
              ELSE UNCHANGED <<sent, sending, pc>>
           /\ frameLog' = Append(frameLog,
                 [payload |-> p, live |-> is_model_connected[s], slot |-> ws_model[s],
                  open |-> ws_model[s] # None /\ IsOpen(ws_model[s])])
    /\ UNCHANGED <<registry, sessVars, session, i, popped, waiting, closing,
                   cont, setting, cstate, taskVars, lVars, docs, histVars, msgLog, apiVars>>

\* An event of another kind: ignored.
LoopOther(h) ==
    /\ pc[h] = "loop"
    /\ session[h] # None
    /\ IsOpen(Tw(h))
    /\ nframes < MaxFrames
    /\ nframes' = nframes + 1
    /\ UNCHANGED <<registry, sessVars, pc, session, i, popped, waiting,
                   closing, cont, sending, setting, connVars, taskVars,
                   lVars, docs, histVars, logVars, apiVars>>

\* How `await self.ws_model.send(msg)` on connection c can end: on a closed
\* connection it raises ConnectionClosed; otherwise it returns, or raises
\* another exception.
SendOutcomes(c) == IF IsOpen(c) THEN {"ok", "error"} ELSE {"closed"}

\* A send whose every failure clears the flag.
FlagAfterSendAnyFailure(flag, o) == IF o = "ok" THEN flag ELSE FALSE

\* send_to_websocket(MODEL): is_model_connected after the send ended with
\* outcome o.  `except ConnectionClosed` clears it, `except Exception` only
\* logs.
FlagAfterSend(flag, o) == IF o = "closed" THEN FALSE ELSE flag

\* send_to_websocket(MODEL): ws_model.send has returned or raised.
LoopSendDone(h) ==
    /\ pc[h] = "send"
    /\ \E o \in SendOutcomes(sending[h]) :
         is_model_connected' =
            [is_model_connected EXCEPT ![session[h]] = FlagAfterSend(@, o)]
    /\ sending' = [sending EXCEPT ![h] = None]
    /\ pc' = [pc EXCEPT ![h] = "loop"]
    /\ UNCHANGED <<registry, stream_sid, config, given, ws_twilio, ws_frontend,
                   ws_model, model_listener, session, i, nframes, popped,
                   waiting, closing, cont, setting, connVars, taskVars,
                   lVars, docs, histVars, logVars, apiVars>>

\* What a handler with a Session does at the end of its leg: `contv` is
\* "loop" for a stop event, "done" for WebSocketDisconnect, "errclose" for
\* any other exception.
LegEnd(h, contv) ==
    /\ pc[h] = "loop"
    /\ session[h] # None
    /\ Remove(h, contv)
    /\ UNCHANGED <<stream_sid, config, given, ws_twilio, ws_frontend, ws_model,
                   model_listener, session, i, nframes, sending, setting,
                   sent, taskVars, lpc, lconn, nmsgs, cleanups, docs, logVars, apiVars>>

\* A stop event.
LoopStop(h) == IsOpen(Tw(h)) /\ LegEnd(h, "loop")

\* A frame that is not JSON (json.loads raises), handled by except Exception.
LoopBad(h) == IsOpen(Tw(h)) /\ LegEnd(h, "errclose")

\* receive_text on a connection that is closed: WebSocketDisconnect, or,
\* the server having closed it before the call, RuntimeError, handled by
\* except Exception, whose close of the closed connection changes nothing.
LoopDisconnect(h) == ~IsOpen(Tw(h)) /\ LegEnd(h, "done")

\* The telephony peer closes its connection.
Hangup(h) ==
    /\ IsOpen(Tw(h))
    /\ pc[h] \notin {"done", "crashed"}
    /\ cstate' = [cstate EXCEPT ![Tw(h)] = "closed"]
    /\ UNCHANGED <<registry, sessVars, hVars, sent, taskVars, lVars, docs, histVars, logVars, apiVars>>

----------------------------------------------------------------------------
(* sessions.py: OpenAISession.connect_model and configure_model *)

\* A connect_model that does not send the configuration.
TaskConnectedNoConfigure(k) ==
    /\ tpc[k] = "connecting"
    /\ LET s == tsess[k] IN
        /\ cstate' = [cstate EXCEPT ![Md(k)] = "open"]
        /\ ws_model' = [ws_model EXCEPT ![s] = Md(k)]
        /\ is_model_connected' = [is_model_connected EXCEPT ![s] = TRUE]
        /\ sent' = sent
    /\ tpc' = [tpc EXCEPT ![k] = "configuring"]
    /\ UNCHANGED <<registry, stream_sid, config, given, ws_twilio, ws_frontend,
                   model_listener, hVars, tsess, lVars, docs, histVars, logVars, apiVars>>

\* websockets.connect has returned connection Md(k): it is installed,
\* is_model_connected is set, and configure_model writes the session.update
\* event with send_to_websocket(MODEL), whose send suspends the task.
TaskConnected(k) ==
    /\ tpc[k] = "connecting"
    /\ LET s == tsess[k] IN
        /\ cstate' = [cstate EXCEPT ![Md(k)] = "open"]
        /\ ws_model' = [ws_model EXCEPT ![s] = Md(k)]
        /\ is_model_connected' = [is_model_connected EXCEPT ![s] = TRUE]
        /\ sent' = [sent EXCEPT ![Md(k)] = Append(@, SessionUpdateEvent(config[s]))]
    /\ tpc' = [tpc EXCEPT ![k] = "configuring"]
    /\ UNCHANGED <<registry, stream_sid, config, given, ws_twilio, ws_frontend,
                   model_listener, hVars, tsess, lVars, docs, histVars, logVars, apiVars>>

\* An except clause that marks the Session connected.
TaskConnectFailedLive(k) ==
    /\ tpc[k] = "connecting"
    /\ ws_model' = [ws_model EXCEPT ![tsess[k]] = None]
    /\ is_model_connected' = [is_model_connected EXCEPT ![tsess[k]] = TRUE]
    /\ tpc' = [tpc EXCEPT ![k] = "done"]
    /\ UNCHANGED <<registry, stream_sid, config, given, ws_twilio, ws_frontend,
                   model_listener, hVars, connVars, tsess, lVars, docs, histVars, logVars, apiVars>>

\* websockets.connect has raised: the except clause clears the model slot
\* and is_model_connected.
TaskConnectFailed(k) ==
    /\ tpc[k] = "connecting"
    /\ ws_model' = [ws_model EXCEPT ![tsess[k]] = None]
    /\ is_model_connected' = [is_model_connected EXCEPT ![tsess[k]] = FALSE]
    /\ tpc' = [tpc EXCEPT ![k] = "done"]
    /\ UNCHANGED <<registry, stream_sid, config, given, ws_twilio, ws_frontend,
                   model_listener, hVars, connVars, tsess, lVars, docs, histVars, logVars, apiVars>>

\* task.cancel(): a task that is done is left alone.
Cancel(lc, l) == IF l # None /\ lpc[l] # "done" THEN [lc EXCEPT ![l] = TRUE] ELSE lc

\* configure_model has returned: its send returned, or raised
\* ConnectionClosed, which clears is_model_connected.  With the flag clear
\* the connection in the model slot is closed (a suspension) and the slot
\* cleared; with the flag set the previous listener is cancelled and a new
\* listener task is created.
TaskConfigured(k) ==
    /\ tpc[k] = "configuring"
    /\ LET s == tsess[k]
           flag == IF IsOpen(Md(k)) THEN is_model_connected[s] ELSE FALSE
       IN  IF ~flag
           THEN /\ is_model_connected' = [is_model_connected EXCEPT ![s] = FALSE]
                /\ IF ws_model[s] # None
                   THEN /\ cstate' = CloseOf(cstate, ws_model[s])
                        /\ tpc' = [tpc EXCEPT ![k] = "cfg_close"]
                   ELSE /\ tpc' = [tpc EXCEPT ![k] = "done"]
                        /\ UNCHANGED cstate
                /\ UNCHANGED <<model_listener, lpc, lcancel>>
           ELSE /\ lcancel' = Cancel(lcancel, model_listener[s])
                /\ model_listener' = [model_listener EXCEPT ![s] = k]
                /\ lpc' = [lpc EXCEPT ![k] = "created"]
                /\ tpc' = [tpc EXCEPT ![k] = "done"]
                /\ UNCHANGED <<is_model_connected, cstate>>
    /\ UNCHANGED <<registry, stream_sid, config, given, ws_twilio, ws_frontend,
                   ws_model, hVars, sent, tsess, lconn, nmsgs, cleanups, docs, histVars,
                   logVars, apiVars>>

\* connect_model after a failed configuration: the close has returned or
\* raised, the model slot is cleared.
TaskCfgClosed(k) ==
    /\ tpc[k] = "cfg_close"
    /\ ws_model' = [ws_model EXCEPT ![tsess[k]] = None]
    /\ tpc' = [tpc EXCEPT ![k] = "done"]
    /\ UNCHANGED <<registry, stream_sid, config, given, ws_twilio, ws_frontend,
                   is_model_connected, model_listener, hVars, connVars,
                   tsess, lVars, docs, histVars, logVars, apiVars>>

\* The model's server closes connection Md(k), or the connection is lost.
ModelClose(k) ==
    /\ IsOpen(Md(k))
    /\ cstate' = [cstate EXCEPT ![Md(k)] = "closed"]
    /\ UNCHANGED <<registry, sessVars, hVars, sent, taskVars, lVars, docs, histVars, logVars, apiVars>>

----------------------------------------------------------------------------
(* sessions.py: OpenAISession._run_model_listener *)

MsgKinds == {"response.audio.delta", "response.done",
             "conversation.item.input_audio_transcription.completed",
             "malformed", "other"}

LoggedKinds == {"response.done",
                "conversation.item.input_audio_transcription.completed"}

\* firestore.add_event_to_call_document: the update appends the event to
\* the call document; without a document it raises, which is swallowed.
AddEvent(d, c, e) == IF d[c] # None THEN [d EXCEPT ![c] = Append(@, e)] ELSE d

\* The finally clause of the listener of task k, up to its suspension:
\* is_model_connected is cleared; a connection in the model slot that is
\* not closed is closed (a suspension), otherwise the slot is cleared and
\* the task is done.
Cleanup(k) ==
    LET s == tsess[k] IN
    /\ cleanups' = [cleanups EXCEPT ![k] = @ + 1]
    /\ is_model_connected' = [is_model_connected EXCEPT ![s] = FALSE]
    /\ IF ws_model[s] # None /\ IsOpen(ws_model[s])
       THEN /\ cstate' = CloseOf(cstate, ws_model[s])
            /\ lpc' = [lpc EXCEPT ![k] = "cleanup"]
            /\ UNCHANGED ws_model
       ELSE /\ ws_model' = [ws_model EXCEPT ![s] = None]
            /\ lpc' = [lpc EXCEPT ![k] = "done"]
            /\ UNCHANGED cstate

\* The task's first step.  A task cancelled before it starts ends without
\* entering the coroutine: no statement of it runs, its finally clause
\* included.  Otherwise `async for msg in self.ws_model` takes the
\* connection in the slot now; on None it raises TypeError.
ListenerStart(k) ==
    /\ lpc[k] = "created"
    /\ IF lcancel[k]
       THEN /\ lpc' = [lpc EXCEPT ![k] = "done"]
            /\ UNCHANGED <<is_model_connected, ws_model, cstate, lconn, cleanups>>
       ELSE IF ws_model[tsess[k]] = None
       THEN Cleanup(k) /\ UNCHANGED lconn
       ELSE /\ lconn' = [lconn EXCEPT ![k] = ws_model[tsess[k]]]
            /\ lpc' = [lpc EXCEPT ![k] = "listening"]
            /\ UNCHANGED <<is_model_connected, ws_model, cstate, cleanups>>
    /\ lcancel' = [lcancel EXCEPT ![k] = FALSE]
    /\ UNCHANGED <<registry, stream_sid, config, given, ws_twilio, ws_frontend,
                   model_listener, hVars, sent, taskVars, nmsgs, docs, histVars, logVars, apiVars>>

\* A loop without the inner try.
CaughtNever(kind) == FALSE

\* The inner try of the loop: an exception raised while a message is
\* decoded and dispatched is caught by `except Exception` and logged.

Caught(kind) == TRUE

\* A message of kind `kind` (an audio delta carrying d) is read and
\* dispatched.  The first send of an audio delta suspends the task.  A
\* message that is not JSON, or not a JSON object, raises in the inner try.
ListenerRecv(k, kind, d) ==
    /\ lpc[k] = "listening"
    /\ ~lcancel[k]
    /\ IsOpen(lconn[k])
    /\ nmsgs < MaxMsgs
    /\ nmsgs' = nmsgs + 1
    /\ LET s == tsess[k] IN
        /\ msgLog' = Append(msgLog,
              [kind |-> kind, delta |-> IF kind = "response.audio.delta" THEN d ELSE None,
               sid |-> stream_sid[s], slot |-> ws_twilio[s],
               open |-> ws_twilio[s] # None /\ IsOpen(ws_twilio[s])])
        /\ IF kind = "malformed" /\ ~Caught(kind)
           THEN Cleanup(k) /\ UNCHANGED <<sent, docs>>
           ELSE /\ IF kind = "response.audio.delta" /\ ws_twilio[s] # None
                   THEN /\ sent' = WriteOf(sent, cstate, ws_twilio[s],
                                           MediaFrame(stream_sid[s], d))
                        /\ lpc' = [lpc EXCEPT ![k] = "media"]
                   ELSE UNCHANGED <<sent, lpc>>
                /\ docs' = IF kind \in LoggedKinds
                           THEN AddEvent(docs, stream_sid[s], kind) ELSE docs
                /\ UNCHANGED <<is_model_connected, ws_model, cstate, cleanups>>
    /\ UNCHANGED <<registry, stream_sid, config, given, ws_twilio, ws_frontend,
                   model_listener, hVars, taskVars, lconn, lcancel, histVars,
                   frameLog, apiVars>>

\* The media frame's send has returned or raised; the mark frame is sent.
ListenerMark(k) ==
    /\ lpc[k] = "media"
    /\ ~lcancel[k]
    /\ LET s == tsess[k] IN
         IF ws_twilio[s] # None
         THEN /\ sent' = WriteOf(sent, cstate, ws_twilio[s], MarkFrame(stream_sid[s]))
              /\ lpc' = [lpc EXCEPT ![k] = "mark"]
         ELSE /\ lpc' = [lpc EXCEPT ![k] = "listening"]
              /\ UNCHANGED sent
    /\ UNCHANGED <<registry, sessVars, hVars, cstate, taskVars, lconn,
                   lcancel, nmsgs, cleanups, docs, histVars, logVars, apiVars>>

\* The mark frame's send has returned or raised; back to the next message.
ListenerMarkDone(k) ==
    /\ lpc[k] = "mark"
    /\ ~lcancel[k]
    /\ lpc' = [lpc EXCEPT ![k] = "listening"]
    /\ UNCHANGED <<registry, sessVars, hVars, connVars, taskVars, lconn,
                   lcancel, nmsgs, cleanups, docs, histVars, logVars, apiVars>>

\* The connection iterated is closed: the loop ends, normally or with
\* ConnectionClosed, and the finally clause runs.
ListenerEnd(k) ==
    /\ lpc[k] = "listening"
    /\ ~lcancel[k]
    /\ ~IsOpen(lconn[k])
    /\ Cleanup(k)
    /\ UNCHANGED <<registry, stream_sid, config, given, ws_twilio, ws_frontend,
                   model_listener, hVars, sent, taskVars, lconn, lcancel,
                   nmsgs, docs, histVars, logVars, apiVars>>

\* CancelledError is raised at the await the task is suspended in: the
\* finally clause runs.
ListenerCancelled(k) ==
    /\ lpc[k] \in {"listening", "media", "mark"}
    /\ lcancel[k]
    /\ lcancel' = [lcancel EXCEPT ![k] = FALSE]
    /\ Cleanup(k)
    /\ UNCHANGED <<registry, stream_sid, config, given, ws_twilio, ws_frontend,
                   model_listener, hVars, sent, taskVars, lconn, nmsgs,
                   docs, histVars, logVars, apiVars>>

\* The finally clause after its close, which returned, raised, or was
\* interrupted by a cancellation that the bare except swallows: the model
\* slot is cleared and the task is done.
ListenerCleanupDone(k) ==
    /\ lpc[k] = "cleanup"
    /\ ws_model' = [ws_model EXCEPT ![tsess[k]] = None]
    /\ lpc' = [lpc EXCEPT ![k] = "done"]
    /\ lcancel' = [lcancel EXCEPT ![k] = FALSE]
    /\ UNCHANGED <<registry, stream_sid, config, given, ws_twilio, ws_frontend,
                   is_model_connected, model_listener, hVars, connVars,
                   taskVars, lconn, nmsgs, cleanups, docs, histVars, logVars, apiVars>>

----------------------------------------------------------------------------
\* The steps of handler h, of the connect_model task and the listener task
\* it spawned, and of the peers of its connections, without media traffic.
Control(h) ==
    \/ HsOther(h)
    \/ HsFail(h)
    \/ \E c \in CallIds : HsStart(h, c)
    \/ LoopNoSession(h)
    \/ LoopStop(h)
    \/ LoopBad(h)
    \/ LoopDisconnect(h)
    \/ Hangup(h)
    \/ RmWaitDone(h)
    \/ RmCloseStep(h)
    \/ TaskConnected(h)
    \/ TaskConnectFailed(h)
    \/ TaskConfigured(h)
    \/ TaskCfgClosed(h)
    \/ ModelClose(h)
    \/ ListenerStart(h)
    \/ ListenerEnd(h)
    \/ ListenerCancelled(h)
    \/ ListenerCleanupDone(h)

\* Media traffic: telephony frames of the main loop and messages of the model.
Traffic(h) ==
    \/ \E p \in Payloads : LoopMedia(h, p)
    \/ LoopOther(h)
    \/ LoopSendDone(h)
    \/ \E kind \in MsgKinds, d \in Deltas : ListenerRecv(h, kind, d)
    \/ ListenerMark(h)
    \/ ListenerMarkDone(h)

\* One call on one telephony connection, with its media traffic.
Init == InitWith({"h1"})
Next == \E h \in Handlers : Control(h) \/ Traffic(h)
Spec == Init /\ [][Next]_vars

\* Two telephony connections that present the same call id, without media
\* traffic: the interleavings of attach, bring-up and teardown.
InitTwo == InitWith(Handlers)
NextTwo == \E h \in Handlers : Control(h) \/ SetTwilioDone(h)
SpecTwo == InitTwo /\ [][NextTwo]_vars


----------------------------------------------------------------------------
(* The Session API: set_websocket and the model bring-up it starts *)

\* Arguments a caller constructs a SessionConfig from: only voice, those of
\* sessions.create, none.
ConfigArgs == {[f \in {"voice"} |-> "alloy"], InitConfigArgs, [f \in {} |-> None]}

\* The state after OpenAISession("CA1", key, SessionConfig(**kw)) has been
\* constructed by caller h1, who holds two accepted connections.
InitApi ==
    /\ registry = [c \in CallIds |-> None]
    /\ stream_sid = [s \in Handlers |-> IF s = "h1" THEN "CA1" ELSE None]
    /\ given \in {[s \in Handlers |-> IF s = "h1" THEN kw ELSE None] : kw \in ConfigArgs}
    /\ config = [s \in Handlers |-> IF s = "h1" THEN SessionConfig(given[s]) ELSE None]
    /\ ws_twilio = [s \in Handlers |-> None]
    /\ ws_frontend = [s \in Handlers |-> None]
    /\ ws_model = [s \in Handlers |-> None]
    /\ is_model_connected = [s \in Handlers |-> FALSE]
    /\ model_listener = [s \in Handlers |-> None]
    /\ pc = [h \in Handlers |-> IF h = "h1" THEN "api" ELSE "off"]
    /\ session = [h \in Handlers |-> IF h = "h1" THEN "h1" ELSE None]
    /\ i = [h \in Handlers |-> 0]
    /\ nframes = 0
    /\ popped = [h \in Handlers |-> None]
    /\ waiting = [h \in Handlers |-> None]
    /\ closing = [h \in Handlers |-> <<>>]
    /\ cont = [h \in Handlers |-> None]
    /\ sending = [h \in Handlers |-> None]
    /\ setting = [h \in Handlers |-> None]
    /\ cstate = [c \in Conns |-> IF c \in ObConns THEN "open" ELSE "unopened"]
    /\ sent = [c \in Conns |-> <<>>]
    /\ tpc = [k \in Handlers |-> "none"]
    /\ tsess = [k \in Handlers |-> None]
    /\ lpc = [k \in Handlers |-> "none"]
    /\ lconn = [k \in Handlers |-> None]
    /\ lcancel = [k \in Handlers |-> FALSE]
    /\ nmsgs = 0
    /\ cleanups = [k \in Handlers |-> 0]
    /\ docs = [c \in CallIds |-> None]
    /\ endCalls = [s \in Handlers |-> 0]
    /\ endDone = [s \in Handlers |-> 0]
    /\ frameLog = <<>>
    /\ msgLog = <<>>
    /\ nsets = 0
    /\ setDone = [h \in Handlers |-> NoCall]

\* session.set_websocket(TWILIO, ws) by caller h; the connect_model task it
\* creates takes a free task index.
ApiSetTwilio(h, ws) ==
    /\ pc[h] = "api"
    /\ nsets < MaxSets
    /\ nsets' = nsets + 1
    /\ \E k \in Handlers :
        /\ tpc[k] = "none"
        /\ \A j \in Handlers : tpc[j] = "none" => (k = "h1" \/ j # "h1")
        /\ SetTwilio(h, session[h], stream_sid[session[h]], ws, k,
                     ws_twilio[session[h]], "api")
    /\ UNCHANGED <<registry, stream_sid, config, given, ws_frontend, ws_model,
                   is_model_connected, model_listener, session, i, nframes,
                   popped, waiting, closing, cont, sending, sent, lVars,
                   histVars, logVars>>

\* session.set_websocket(FRONTEND | MODEL, ws) by caller h.
ApiSetOther(h, role, ws) ==
    /\ pc[h] = "api"
    /\ nsets < MaxSets
    /\ nsets' = nsets + 1
    /\ SetOther(h, session[h], role, ws, "api")
    /\ UNCHANGED <<registry, stream_sid, config, given, ws_twilio,
                   is_model_connected, model_listener, session, i, nframes,
                   popped, waiting, closing, cont, sending, sent, taskVars,
                   lVars, docs, histVars, logVars>>

\* session.close_connections() by caller h.
ApiEnd(h) ==
    /\ pc[h] = "api"
    /\ endCalls[session[h]] < MaxEnds
    /\ CloseConnections(h, session[h], "api")
    /\ UNCHANGED <<registry, stream_sid, config, given, ws_twilio, ws_frontend,
                   ws_model, model_listener, session, i, nframes, sending,
                   setting, sent, taskVars, lpc, lconn, nmsgs, cleanups, docs,
                   logVars, apiVars>>

\* The peer of an accepted connection closes it.
PeerClose(c) ==
    /\ IsOpen(c)
    /\ cstate' = [cstate EXCEPT ![c] = "closed"]
    /\ UNCHANGED <<registry, sessVars, hVars, sent, taskVars, lVars, docs,
                   histVars, logVars, apiVars>>

NextApi ==
    \/ \E ws \in ObConns : ApiSetTwilio("h1", ws)
    \/ \E role \in {"FRONTEND", "MODEL"}, ws \in ObConns : ApiSetOther("h1", role, ws)
    \/ SetTwilioDone("h1")
    \/ SetOtherDone("h1")
    \/ \E c \in ObConns : PeerClose(c)
    \/ \E k \in Handlers :
        \/ TaskConnected(k)
        \/ TaskConnectFailed(k)
        \/ TaskConfigured(k)
        \/ TaskCfgClosed(k)
        \/ ModelClose(k)
        \/ ListenerStart(k)
        \/ ListenerEnd(k)
        \/ ListenerCancelled(k)
        \/ ListenerCleanupDone(k)
SpecApi == InitApi /\ [][NextApi]_vars

\* The Session API: close_connections called, repeatedly, on a Session
\* constructed as sessions.create constructs it, between and during the
\* bring-ups that set_websocket(TWILIO) starts.
InitEnd == InitApi /\ given["h1"] = InitConfigArgs
NextEnd ==
    \/ \E ws \in ObConns : ApiSetTwilio("h1", ws)
    \/ SetTwilioDone("h1")
    \/ ApiEnd("h1")
    \/ RmWaitDone("h1")
    \/ RmCloseStep("h1")
    \/ \E c \in ObConns : PeerClose(c)
    \/ \E k \in Handlers :
        \/ TaskConnected(k)
        \/ TaskConnectFailed(k)
        \/ TaskConfigured(k)
        \/ TaskCfgClosed(k)
        \/ ModelClose(k)
        \/ ListenerStart(k)
        \/ ListenerEnd(k)
        \/ ListenerCancelled(k)
        \/ ListenerCleanupDone(k)
SpecEnd == InitEnd /\ [][NextEnd]_vars


\* Media traffic with distinguishable audio: two telephony payloads and two
\* audio deltas of the model.
OrderPayloads == {"ABCD", "EFGH"}
OrderDeltas == {"WXYZ", "QRST"}

TrafficOrder(h) ==
    \/ \E p \in OrderPayloads : LoopMedia(h, p)
    \/ LoopSendDone(h)
    \/ \E d \in OrderDeltas : ListenerRecv(h, "response.audio.delta", d)
    \/ ListenerMark(h)
    \/ ListenerMarkDone(h)

\* One call whose frames in both directions carry distinguishable audio.
NextOrder == \E h \in Handlers : Control(h) \/ TrafficOrder(h)
SpecOrder == Init /\ [][NextOrder]_vars

\* The steps the event loop takes by itself: a task or handler whose await
\* has completed is resumed.  websockets.connect returns or raises within
\* its timeouts, and a close or send on a connection completes or raises.
\* What the peers do (frames arriving, a peer closing its connection) is not
\* a step of the program.
Scheduled(h) ==
    \/ RmWaitDone(h)
    \/ RmCloseStep(h)
    \/ LoopSendDone(h)
    \/ TaskConnected(h)
    \/ TaskConnectFailed(h)
    \/ TaskConfigured(h)
    \/ TaskCfgClosed(h)
    \/ ListenerStart(h)
    \/ ListenerMark(h)
    \/ ListenerMarkDone(h)
    \/ ListenerEnd(h)
    \/ ListenerCancelled(h)
    \/ ListenerCleanupDone(h)

\* The position of every handler and task; each scheduled step changes it.
schedVars == <<pc, tpc, lpc, closing>>

\* One call with its media traffic, the event loop running every task that
\* is ready.
SpecLive == Init /\ [][Next]_vars /\ \A h \in Handlers : WF_schedVars(Scheduled(h))

----------------------------------------------------------------------------
(* Properties *)

\* C1: when close_connections (end) completes on a Session, the Session's
\* three connection slots are empty and is_model_connected is false,
\* whatever the slots held when it was called.
C1_EndClearsSlots ==
    [][\A s \in Handlers :
         endDone'[s] > endDone[s] =>
            /\ ws_twilio'[s] = None
            /\ ws_frontend'[s] = None
            /\ ws_model'[s] = None
            /\ ~is_model_connected'[s]]_vars

\* The Sessions constructed for call id c on which close_connections has
\* not been invoked.
LiveSessions(c) == {s \in Handlers : stream_sid[s] = c /\ endCalls[s] = 0}

\* C2: handlers that get-or-create a Session for the same call id while one
\* is in use receive the same instance: at most one Session of a call id is
\* in use, it is the one the registry holds, and every handler whose
\* get-or-create returned a Session in use holds that one.
C2_OneSessionPerCallId ==
    \A c \in CallIds :
        /\ Cardinality(LiveSessions(c)) <= 1
        /\ \A s \in LiveSessions(c) : registry[c] = s
        /\ \A h \in Handlers, g \in Handlers :
             /\ session[h] # None /\ session[g] # None
             /\ session[h] \in LiveSessions(c) /\ session[g] \in LiveSessions(c)
             => session[h] = session[g]

\* C2, its case: both handlers have presented the call id and hold the same
\* Session, which is in use.
C2_BothHoldSame ==
    /\ session["h1"] # None
    /\ session["h1"] = session["h2"]
    /\ endCalls[session["h1"]] = 0
    /\ registry[stream_sid[session["h1"]]] = session["h1"]

\* C3: when sessions.remove returns to the handler of a stop event, the
\* Session it popped is not in the registry and the Session's listener task,
\* if it has one, is done and has run its finally clause.
C3_StopEndsListener ==
    [][\A h \in Handlers :
         pc[h] \in {"rm_wait", "rm_close"} /\ cont[h] = "loop" /\ pc'[h] = "loop" =>
            LET t == popped[h]
                l == model_listener'[t]
            IN  /\ \A c \in CallIds : registry'[c] # t
                /\ l # None => lpc'[l] = "done" /\ cleanups'[l] >= 1]_vars

\* C4: a media frame read while is_model_connected is false is dropped:
\* nothing is written to any connection, the handler stays in its main loop
\* (no exception, no send in progress), and the Session is neither removed
\* nor closed nor changed.
C4_DroppedWhenNotLive ==
    [][Len(frameLog') > Len(frameLog) /\ ~frameLog'[Len(frameLog')].live =>
         /\ sent' = sent
         /\ cstate' = cstate
         /\ pc' = pc
         /\ registry' = registry
         /\ sessVars' = sessVars
         /\ endCalls' = endCalls]_vars

\* C4, its case: a media frame with a payload was read while the model slot
\* held a connection and is_model_connected was false.
C4_FrameWhileNotLive ==
    \E j \in 1..Len(frameLog) :
        /\ ~frameLog[j].live
        /\ frameLog[j].payload # ""
        /\ frameLog[j].slot # None

MarkOf(sid) ==
    [event |-> "mark", streamSid |-> sid, name |-> "response_audio_chunk_sent"]

\* On every telephony connection a mark frame directly follows a media
\* frame, and a media frame that is followed by a frame is followed by the
\* mark frame of its call id.
PairedFrames ==
    \A c \in TwConns : \A j \in 1..Len(sent[c]) :
        /\ sent[c][j].event = "mark" => j > 1 /\ sent[c][j - 1].event = "media"
        /\ sent[c][j].event = "media" /\ j < Len(sent[c]) =>
              sent[c][j + 1] = MarkOf(sent[c][j].streamSid)

\* A response.audio.delta read while the telephony slot holds an open
\* connection writes the media frame with the call id and the delta to it,
\* and nothing else; read while the slot's connection is closed it writes
\* nothing.
MediaWritten ==
    Len(msgLog') > Len(msgLog) =>
        LET e == msgLog'[Len(msgLog')] IN
        e.kind = "response.audio.delta" =>
            IF e.open
            THEN sent' = [sent EXCEPT ![e.slot] =
                             Append(@, [event |-> "media", streamSid |-> e.sid,
                                        media |-> [payload |-> e.delta]])]
            ELSE sent' = sent

\* The listener going on from the media frame to the mark frame writes the
\* mark frame to the telephony slot's connection if it is open.
MarkWritten ==
    \A k \in Handlers :
        lpc[k] = "media" /\ lpc'[k] = "mark" =>
            LET c == ws_twilio[tsess[k]] IN
            IF cstate[c] = "open"
            THEN sent' = [sent EXCEPT ![c] = Append(@, MarkOf(stream_sid[tsess[k]]))]
            ELSE sent' = sent

\* C6: a response.audio.delta with delta d read while the telephony
\* connection is open writes a media frame with streamSid = the call id and
\* payload = d to it; the listener's next write is the mark frame named
\* response_audio_chunk_sent, written if the connection is still open; no
\* other frame is ever written between a media frame and its mark frame.
C6_MediaThenMark == []PairedFrames /\ [][MediaWritten /\ MarkWritten]_vars

\* C6, its case: the telephony connection has received the media frame of
\* delta "WXYZ" and next the mark frame.
C6_PairDelivered ==
    \E j \in 1..Len(sent[Tw("h1")]) :
        /\ j < Len(sent[Tw("h1")])
        /\ sent[Tw("h1")][j] = [event |-> "media", streamSid |-> "CA1",
                                media |-> [payload |-> "WXYZ"]]
        /\ sent[Tw("h1")][j + 1] = MarkOf("CA1")

\* The frames the telephony connection receives for the messages of log:
\* per response.audio.delta a media frame and a mark frame.
RECURSIVE FramesFor(_)
FramesFor(log) ==
    IF log = <<>> THEN <<>>
    ELSE LET e == Head(log) IN
         IF e.kind = "response.audio.delta"
         THEN <<[event |-> "media", streamSid |-> e.sid,
                 media |-> [payload |-> e.delta]], MarkOf(e.sid)>>
              \o FramesFor(Tail(log))
         ELSE FramesFor(Tail(log))

\* C6 as stated: once the listener is through with the messages it has
\* read, the telephony connection has received, for every
\* response.audio.delta read, the media frame directly followed by the mark
\* frame, and nothing else.
C6_EveryDeltaDelivered ==
    (\A k \in Handlers : lpc[k] \notin {"media", "mark"}) =>
        \A h \in Handlers :
            ws_twilio[h] # None =>
                sent[ws_twilio[h]] = FramesFor(msgLog)

\* C7: a message that fails to decode leaves the listener listening, with
\* is_model_connected, the model slot and the call document unchanged and
\* its finally clause not run; and a response.done message a listener reads,
\* whatever it read before, is appended to the call document.
C7_MalformedSurvives ==
    [][Len(msgLog') > Len(msgLog) =>
         LET e == msgLog'[Len(msgLog')] IN
         /\ e.kind = "malformed" =>
              /\ lpc' = lpc
              /\ is_model_connected' = is_model_connected
              /\ ws_model' = ws_model
              /\ cleanups' = cleanups
              /\ docs' = docs
         /\ e.kind = "response.done" /\ docs[e.sid] # None =>
              docs' = [docs EXCEPT ![e.sid] = Append(@, "response.done")]]_vars

\* C7, its case: a malformed message was read, a response.done message
\* after it, and the call document holds the response.done event.
C7_DoneAfterMalformed ==
    /\ \E j \in 1..Len(msgLog), n \in 1..Len(msgLog) :
          j < n /\ msgLog[j].kind = "malformed" /\ msgLog[n].kind = "response.done"
    /\ docs["CA1"] # None
    /\ \E n \in 1..Len(docs["CA1"]) : docs["CA1"][n] = "response.done"

\* C8: the session.update event a connect_model task writes carries exactly
\* the fields the Session's configuration was constructed with.
C8_UpdateCarriesGiven ==
    \A k \in Handlers :
        sent[Md(k)] # <<>> =>
            Head(sent[Md(k)]) = [type |-> "session.update",
                                 session |-> given[tsess[k]]]

\* C9: when set_websocket(role, ws) returns, the slot of the role holds ws,
\* set_websocket has not called close on ws, and if the slot held a
\* different connection at the call it has called close on that one.
C9_SetInstalls ==
    [][\A h \in Handlers :
         setDone'[h] # setDone[h] =>
            LET r == setDone'[h] IN
            /\ r.role = "TWILIO" => r.ws = ws_twilio'[r.s]
            /\ r.role = "FRONTEND" => r.ws = ws_frontend'[r.s]
            /\ r.role = "MODEL" => r.ws = ws_model'[r.s]
            /\ r.ws \notin r.closed
            /\ r.old # None /\ r.old # r.ws => r.old \in r.closed]_vars

\* C10: when a handler has finished handling the end of its leg (a stop
\* event, a disconnection, any other exception in the main loop),
\* close_connections has been invoked on its Session and the registry holds
\* no entry for the Session's call id.
C10_LegEndRemoves ==
    [][\A h \in Handlers :
         /\ session[h] # None
         /\ pc[h] \in {"loop", "rm_wait", "rm_close"}
         /\ pc'[h] \in {"loop", "done"}
         /\ pc[h] # "loop" \/ pc'[h] = "done"
         => /\ endCalls'[session[h]] >= 1
            /\ registry'[stream_sid[session[h]]] = None]_vars

\* C10, its case: the handler has ended after the end of its leg, and
\* close_connections has completed on its Session.
C10_HandlerEnded ==
    /\ pc["h1"] = "done"
    /\ session["h1"] # None
    /\ endDone[session["h1"]] >= 1
    /\ registry[stream_sid[session["h1"]]] = None

\* A Session as close_connections leaves it: is_model_connected false, no
\* listener task that is not done, no open connection in a slot, nor among
\* those a close_connections in progress took from the slots.
Ended(s) ==
    /\ ~is_model_connected[s]
    /\ model_listener[s] = None \/ lpc[model_listener[s]] = "done"
    /\ \A role \in {"TWILIO", "FRONTEND", "MODEL"} :
          SlotOf(s, role) = None \/ ~IsOpen(SlotOf(s, role))
    /\ \A h \in Handlers :
          popped[h] = s => \A j \in 1..Len(closing[h]) : ~IsOpen(closing[h][j])

\* A step of close_connections on Session s: its call, or a step of the
\* caller that is suspended in it.
EndStep(s) ==
    \/ endCalls'[s] > endCalls[s]
    \/ \E h \in Handlers :
          pc[h] \in {"rm_wait", "rm_close"} /\ popped[h] = s /\ hVars' # hVars

\* C11: close_connections invoked on a Session that is as a completed
\* close_connections leaves it (a second invocation), or whose slots are
\* empty and that has no listener, raises nothing and changes nothing: each
\* of its steps leaves the Session's fields, the connections and the tasks
\* as they are, and the caller goes on.
C11_EndIdempotent ==
    [][\A s \in Handlers :
         stream_sid[s] # None /\ EndStep(s) /\ Ended(s) =>
            /\ sessVars' = sessVars
            /\ connVars' = connVars
            /\ taskVars' = taskVars
            /\ lVars' = lVars
            /\ \A h \in Handlers : pc'[h] # "crashed"]_vars

\* C11, its case: a second close_connections is suspended in the close of
\* a connection that the first one closed, after a listener that is done.
C11_SecondEnd ==
    /\ endCalls["h1"] = 2
    /\ endDone["h1"] = 1
    /\ pc["h1"] = "rm_close"
    /\ Ended("h1")
    /\ ws_twilio["h1"] # None
    /\ model_listener["h1"] # None

----------------------------------------------------------------------------
\* Handler h takes a step out of its main loop while the call id of its
\* Session has no entry in the registry: sessions.remove on an absent id
\* (after a stop event the handler stays in the loop and the step changes
\* nothing at all).
RemoveAbsent(h) ==
    /\ pc[h] = "loop"
    /\ session[h] # None
    /\ registry[stream_sid[session[h]]] = None
    /\ pc'[h] # pc[h]

\* C12: sessions.remove for a call id that is not in the registry is a no-op:
\* the registry and every Session's fields are unchanged, no listener is
\* cancelled and close_connections is not invoked, the handler going straight
\* on to its end; and over the stop, disconnect and error events of the
\* connections of a call, close_connections is invoked at most once on a
\* Session.
C12_RemoveAbsentNoop ==
    [][/\ \A h \in Handlers :
            RemoveAbsent(h) =>
               /\ registry' = registry
               /\ sessVars' = sessVars
               /\ taskVars' = taskVars
               /\ lVars' = lVars
               /\ endCalls' = endCalls
               /\ pc'[h] = "done"
       /\ \A s \in Handlers : endCalls'[s] <= 1]_vars

\* C12, its case: both connections of a call held the same Session; the leg
\* of the first ended the Session, then the leg of the second ended and its
\* remove found no entry.
C12_SecondRemove ==
    /\ session["h1"] = "h1" /\ session["h2"] = "h1"
    /\ pc["h1"] = "done" /\ pc["h2"] = "done"
    /\ registry["CA1"] = None
    /\ endCalls["h1"] = 1 /\ endDone["h1"] = 1

----------------------------------------------------------------------------
\* C13: a frame of the telephony leg that cannot be decoded is isolated to
\* that frame: the handler stays in its main loop for the next frame, the
\* registry keeps the Session and the telephony connection stays open.
C13_BadFrameIsolated ==
    [][\A h \in Handlers :
         LoopBad(h) =>
            /\ pc'[h] = "loop"
            /\ registry' = registry
            /\ cstate'[Tw(h)] = "open"]_vars

----------------------------------------------------------------------------
\* C14: a handler that has no Session (no start event has arrived) either
\* goes on with the handshake, or gets its Session from a start event, or
\* ends with its connection closed: it never enters the main loop without a
\* Session, where the next event dereferences None, and no exception
\* escapes it.
C14_HandshakeFailureDefined ==
    [][\A h \in Handlers :
         session[h] = None /\ pc'[h] # pc[h] =>
            \/ session'[h] # None
            \/ pc'[h] = "done" /\ cstate'[Tw(h)] = "closed"]_vars

----------------------------------------------------------------------------
\* Session s is registered and its model leg, brought up with a listener,
\* has failed: the flag is set and the connection in the model slot is closed.
LiveLegFailed(s) ==
    /\ stream_sid[s] # None
    /\ registry[stream_sid[s]] = s
    /\ is_model_connected[s]
    /\ model_listener[s] # None
    /\ ws_model[s] # None
    /\ ~IsOpen(ws_model[s])

\* Session s has been ended and is not in the registry.
TornDown(s) ==
    /\ endCalls[s] >= 1
    /\ \A c \in CallIds : registry[c] # s

\* C15: the failure of a live model leg leads to the teardown of the
\* Session: close_connections runs on it and it leaves the registry.
C15_LegFailureTearsDown ==
    \A s \in Handlers : LiveLegFailed(s) ~> TornDown(s)

----------------------------------------------------------------------------
\* The listener tasks of Session s that have been created and are not done.
Listeners(s) == {k \in Handlers : tsess[k] = s /\ lpc[k] \notin {"none", "done"}}

\* C16: a Session never has more than one listener task that is not done:
\* when connect_model creates a listener, the previous one has terminated.
C16_OneListener ==
    \A s \in Handlers : Cardinality(Listeners(s)) <= 1

----------------------------------------------------------------------------
\* The positions of a listener task inside its `async for` loop.
InLoop == {"listening", "media", "mark"}

\* C17: when a listener task leaves its loop (the connection it iterates is
\* closed, a read fails, or the task is cancelled) its finally clause runs,
\* once, and clears is_model_connected; when the task is done, the finally
\* clause has run exactly once, the connection the listener iterated is
\* closed and the model slot of its Session is empty.
C17_CleanupOnce ==
    [][\A k \in Handlers :
         /\ lpc[k] \in InLoop /\ lpc'[k] \notin InLoop =>
               /\ cleanups'[k] = cleanups[k] + 1
               /\ ~is_model_connected'[tsess[k]]
         /\ lpc[k] \in InLoop \cup {"cleanup"} /\ lpc'[k] = "done" =>
               /\ cleanups'[k] = 1
               /\ cstate'[lconn[k]] = "closed"
               /\ ws_model'[tsess[k]] = None]_vars

----------------------------------------------------------------------------
\* The connections of Session t's slots that are populated, observer first,
\* then telephony, then model.
InOrder(t) ==
    (IF ws_frontend[t] # None THEN <<ws_frontend[t]>> ELSE <<>>)
    \o (IF ws_twilio[t] # None THEN <<ws_twilio[t]>> ELSE <<>>)
    \o (IF ws_model[t] # None THEN <<ws_model[t]>> ELSE <<>>)

\* Caller h's close_connections on t reaches its for loop in this step: it
\* is invoked with no listener to await, or the listener it awaited is done.
EntersLoop(h, t) ==
    \/ /\ endCalls'[t] = endCalls[t] + 1
       /\ pc[h] = "api"
       /\ pc'[h] # "rm_wait"
    \/ /\ pc[h] = "rm_wait"
       /\ pc'[h] # "rm_wait"

\* C18: close_connections cancels the Session's listener task when it is not
\* done and closes nothing itself until that task is done; it then closes
\* the connections of the populated slots in the order observer, telephony,
\* model, one close per step, going on to the next whether or not the
\* connection was already closed (the close then raises), and ends by
\* clearing is_model_connected and returning to its caller.
C18_CancelThenCloseInOrder ==
    [][\A h \in Handlers :
         LET t == session[h] IN
         t # None =>
           /\ pc[h] = "api" /\ endCalls'[t] = endCalls[t] + 1
                /\ model_listener[t] # None /\ lpc[model_listener[t]] # "done" =>
                 /\ lcancel'[model_listener[t]]
                 /\ pc'[h] = "rm_wait"
                 /\ cstate' = cstate
           /\ pc[h] = "rm_wait" /\ pc'[h] # "rm_wait" => lpc[waiting[h]] = "done"
           /\ EntersLoop(h, t) =>
                 /\ closing'[h] = InOrder(t)
                 /\ InOrder(t) # <<>> =>
                       pc'[h] = "rm_close" /\ cstate'[Head(InOrder(t))] = "closed"
                 /\ InOrder(t) = <<>> =>
                       pc'[h] = "api" /\ ~is_model_connected'[t]
           /\ pc[h] = "rm_close" /\ closing'[h] # closing[h] =>
                 /\ closing'[h] = Tail(closing[h])
                 /\ Tail(closing[h]) # <<>> =>
                       pc'[h] = "rm_close" /\ cstate'[Head(Tail(closing[h]))] = "closed"
                 /\ Tail(closing[h]) = <<>> =>
                       pc'[h] = "api" /\ ~is_model_connected'[t]]_vars

\* C18, its case: close_connections cancelled the Session's only listener
\* task, which had not started, awaited it, has closed the telephony
\* connection and is closing the model connection.
C18_ClosingModelAfterTelephony ==
    /\ pc["h1"] = "rm_close"
    /\ endCalls["h1"] = 1
    /\ model_listener["h1"] # None
    /\ lpc[model_listener["h1"]] = "done"
    /\ cleanups[model_listener["h1"]] = 0
    /\ \A k \in Handlers : k # model_listener["h1"] => lpc[k] = "none"
    /\ ws_twilio["h1"] # None /\ ws_model["h1"] # None
    /\ closing["h1"] = <<ws_model["h1"]>>
    /\ cstate[ws_twilio["h1"]] = "closed"

----------------------------------------------------------------------------
\* Listener task k, which connect_model has replaced by a newer listener of
\* the same Session, ends or runs its finally clause in this step.
ReplacedListenerEnds(k) ==
    /\ tsess[k] # None
    /\ model_listener[tsess[k]] # None
    /\ model_listener[tsess[k]] # k
    /\ lpc[k] \notin {"none", "done"}
    /\ lpc'[k] # lpc[k]
    /\ lpc'[k] \in {"cleanup", "done"}

\* C19: after a bring-up has connected, configured and started its listener
\* while a previous listener of the Session was running, the end of the
\* previous listener leaves the new leg alone: it does not change
\* is_model_connected or the model slot and does not close the connection
\* in the slot.
C19_NewLegSurvives ==
    [][\A k \in Handlers :
         ReplacedListenerEnds(k) =>
            LET s == tsess[k] IN
            /\ is_model_connected'[s] = is_model_connected[s]
            /\ ws_model'[s] = ws_model[s]
            /\ ws_model[s] # None => cstate'[ws_model[s]] = cstate[ws_model[s]]]_vars

----------------------------------------------------------------------------
\* C20: once close_connections has completed on a Session that is out of
\* the registry, no later step opens a model connection for it, installs a
\* connection in its model slot, sets is_model_connected, or gives it a
\* listener task.
C20_StaysTornDown ==
    [][\A s \in Handlers :
         endDone[s] >= 1 /\ (\A c \in CallIds : registry[c] # s) =>
            /\ \A k \in Handlers :
                  tsess[k] = s /\ cstate'[Md(k)] = "open" => cstate[Md(k)] = "open"
            /\ ws_model'[s] # None => ws_model'[s] = ws_model[s]
            /\ is_model_connected'[s] => is_model_connected[s]
            /\ model_listener'[s] = model_listener[s]]_vars

----------------------------------------------------------------------------
\* C21: in every state, is_model_connected being true implies that the
\* model slot holds a connection.
C21_FlagImpliesSlot ==
    \A s \in Handlers : is_model_connected[s] => ws_model[s] # None

----------------------------------------------------------------------------
\* The model connections opened for Session s that are open.
OpenModelConns(s) == {k \in Handlers : tsess[k] = s /\ cstate[Md(k)] = "open"}

\* C22: a Session never has two model connections open: when connect_model
\* installs the connection it has opened, no other model connection of the
\* Session is open; and when close_connections completes on a Session, no
\* model connection opened for it is open.
C22_OneModelConnection ==
    [][/\ \A k \in Handlers :
            cstate[Md(k)] = "unopened" /\ cstate'[Md(k)] = "open" =>
               OpenModelConns(tsess[k]) = {}
       /\ \A s \in Handlers :
            endDone'[s] = endDone[s] + 1 =>
               \A k \in Handlers : tsess[k] = s => cstate'[Md(k)] # "open"]_vars

----------------------------------------------------------------------------
\* connect_model task k returns from configure_model in this step, its
\* send having raised ConnectionClosed, which clears is_model_connected.
ConfigureFailed(k) ==
    /\ tpc[k] = "configuring"
    /\ tpc'[k] # "configuring"
    /\ ~IsOpen(Md(k))

\* connect_model task k returns in this step after a failed configuration.
FailedBringUpReturns(k) ==
    \/ ConfigureFailed(k) /\ tpc'[k] = "done"
    \/ tpc[k] = "cfg_close" /\ tpc'[k] = "done" /\ ~IsOpen(Md(k))

\* C23: when the send of configure_model fails on a closed connection,
\* connect_model creates no listener task and the flag is false; when it
\* returns, the
\* connection it opened is closed, the model slot is empty and the flag is
\* false.
C23_FailedConfigureDiscards ==
    [][\A k \in Handlers :
         /\ ConfigureFailed(k) =>
               /\ ~is_model_connected'[tsess[k]]
               /\ model_listener' = model_listener
               /\ lpc'[k] = "none"
         /\ FailedBringUpReturns(k) =>
               /\ cstate'[Md(k)] = "closed"
               /\ ws_model'[tsess[k]] = None
               /\ ~is_model_connected'[tsess[k]]
               /\ lpc'[k] = "none"]_vars

----------------------------------------------------------------------------
\* The websockets.connect of connect_model task k has failed and the task
\* has returned.
ConnectFailed(k) ==
    tpc[k] = "done" /\ cstate[Md(k)] = "unopened"

\* C24: when websockets.connect fails, connect_model leaves the Session
\* with is_model_connected false, an empty model slot and no listener task,
\* and changes neither the registry nor the handler; the task makes no
\* further attempt, and the Session stays so; a telephony frame read
\* afterwards writes nothing to any connection and leaves the handler in its
\* main loop with the Session registered.
C24_ConnectFailureLeavesDisconnected ==
    [][\A k \in Handlers :
         LET s == tsess[k] IN
         /\ tpc[k] = "connecting" /\ tpc'[k] = "done" /\ cstate'[Md(k)] = "unopened" =>
               /\ ws_model'[s] = None
               /\ ~is_model_connected'[s]
               /\ model_listener'[s] = None
               /\ lpc'[k] = "none"
               /\ registry' = registry
               /\ hVars' = hVars
         /\ ConnectFailed(k) =>
               /\ tpc'[k] = "done" /\ cstate'[Md(k)] = "unopened"
               /\ ws_model'[s] = None
               /\ ~is_model_connected'[s]
               /\ model_listener'[s] = None
               /\ Len(frameLog') > Len(frameLog) =>
                     /\ sent' = sent
                     /\ registry' = registry
                     /\ \A h \in Handlers : session[h] = s => pc'[h] = "loop"]_vars

\* C24, its case: the connect has failed, the Session is registered and its
\* handler, in its main loop, has read a media frame with audio that went
\* nowhere.
C24_DroppedAfterConnectFailure ==
    /\ ConnectFailed("h1")
    /\ registry["CA1"] = "h1"
    /\ pc["h1"] = "loop"
    /\ frameLog # <<>>
    /\ frameLog[Len(frameLog)].payload = "ABCD"
    /\ sent = [c \in Conns |-> <<>>]

----------------------------------------------------------------------------
\* Listener task k starts a send to the telephony connection in this step
\* (the media frame, or the mark frame after it) and the connection in the
\* telephony slot is closed: send_json raises.
TelephonySendFails(k) ==
    /\ lpc[k] \in {"listening", "media"}
    /\ lpc'[k] \in {"media", "mark"}
    /\ lpc'[k] # lpc[k]
    /\ ~IsOpen(ws_twilio[tsess[k]])

\* C25: a send to the model that ends on a closed connection clears
\* is_model_connected, and one that ends otherwise leaves it as it is; in
\* both cases the slots and the registry are unchanged and the handler goes
\* on with its loop.  A send to the telephony connection that fails writes
\* nothing, changes no field of the Session and no registry entry, and the
\* listener goes on with its loop.
C25_SendFailures ==
    [][/\ \A h \in Handlers :
            pc[h] = "send" /\ pc'[h] # "send" =>
               LET s == session[h] IN
               /\ ~IsOpen(sending[h]) => ~is_model_connected'[s]
               /\ IsOpen(sending[h]) => is_model_connected'[s] = is_model_connected[s]
               /\ ws_model' = ws_model /\ ws_twilio' = ws_twilio /\ ws_frontend' = ws_frontend
               /\ registry' = registry
               /\ pc'[h] = "loop"
       /\ \A k \in Handlers :
            /\ TelephonySendFails(k) =>
                  /\ sent' = sent
                  /\ sessVars' = sessVars
                  /\ registry' = registry
            /\ lpc[k] \in {"media", "mark"} /\ lpc'[k] # lpc[k] /\ ~lcancel[k] =>
                  lpc'[k] \in InLoop]_vars

\* C25, its case: before connect_model has returned from configure_model,
\* the model connection closed and a media frame was sent on it: the send
\* raised ConnectionClosed, the flag is false and the handler is back in its
\* loop.
C25_ClosedSendClearedFlag ==
    /\ tpc["h1"] = "configuring"
    /\ endCalls["h1"] = 0
    /\ pc["h1"] = "loop"
    /\ ~is_model_connected["h1"]
    /\ ws_model["h1"] # None
    /\ frameLog # <<>>
    /\ frameLog[Len(frameLog)].live
    /\ ~frameLog[Len(frameLog)].open

----------------------------------------------------------------------------
\* The model leg of Session s is being brought up, or could not be: a
\* connect_model task of s is in websockets.connect, or its connect failed.
Unready(s) ==
    \E k \in Handlers : tsess[k] = s /\ (tpc[k] = "connecting" \/ ConnectFailed(k))

\* C26: the start event's set_websocket(TWILIO) creates a connect_model task
\* for the Session and returns to the handler, which enters its main loop
\* while the task is in websockets.connect; while the model leg is being
\* brought up or could not be, the handler in its loop can read the next
\* frame, and a frame it reads is dropped: nothing is written, the task is
\* not touched and the handler stays in its loop.
C26_AttachDoesNotWait ==
    [][\A h \in Handlers :
         /\ session[h] = None /\ session'[h] # None =>
               /\ \E k \in Handlers :
                     tpc[k] = "none" /\ tpc'[k] = "connecting" /\ tsess'[k] = session'[h]
               /\ pc'[h] = "loop"
         /\ pc[h] = "loop" /\ session[h] # None /\ Unready(session[h]) =>
               /\ IsOpen(Tw(h)) /\ nframes < MaxFrames =>
                     ENABLED (\E p \in Payloads : LoopMedia(h, p))
               /\ Len(frameLog') > Len(frameLog) =>
                     /\ pc'[h] = "loop"
                     /\ sent' = sent
                     /\ taskVars' = taskVars]_vars

\* C26, its case: the handler has read two media frames in its main loop
\* while connect_model was still in websockets.connect.
C26_FramesWhileConnecting ==
    /\ tpc["h1"] = "connecting"
    /\ pc["h1"] = "loop"
    /\ Len(frameLog) = 2
    /\ frameLog[2].payload = "ABCD"
    /\ sent = [c \in Conns |-> <<>>]

----------------------------------------------------------------------------
\* C27: on every model connection connect_model has opened, the first
\* message written is the session.update event; an
\* input_audio_buffer.append event of the main loop is written only after
\* it, and the event is written once.
C27_UpdateFirst ==
    \A k \in Handlers :
       LET out == sent[Md(k)] IN
       /\ cstate[Md(k)] # "unopened" => out # <<>> /\ out[1].type = "session.update"
       /\ \A j \in 2..Len(out) : out[j].type = "input_audio_buffer.append"

\* C27, its case: a model connection on which the session.update event was
\* followed by an audio event of the main loop.
C27_UpdateThenAudio ==
    /\ Len(sent[Md("h1")]) >= 2
    /\ sent[Md("h1")][1].type = "session.update"
    /\ sent[Md("h1")][2].type = "input_audio_buffer.append"

----------------------------------------------------------------------------
\* The audio of the append events written to a model connection, in the
\* order written.
AudioWritten(c) ==
    LET as == SelectSeq(sent[c], LAMBDA m : m.type = "input_audio_buffer.append")
    IN  [j \in 1..Len(as) |-> as[j].audio]

\* The payloads of the telephony media frames that were forwarded to model
\* connection c, in arrival order: those read with a payload, the flag set
\* and c, open, in the model slot.
AudioForwarded(c) ==
    LET fs == SelectSeq(frameLog,
                 LAMBDA f : f.payload # "" /\ f.live /\ f.slot = c /\ f.open)
    IN  [j \in 1..Len(fs) |-> fs[j].payload]

\* The payloads of the media frames written to telephony connection c, in
\* the order written.
DeltasWritten(c) ==
    LET ms == SelectSeq(sent[c], LAMBDA m : m.event = "media")
    IN  [j \in 1..Len(ms) |-> ms[j].media.payload]

\* The audio deltas the model sent, in arrival order.
DeltasArrived ==
    LET ds == SelectSeq(msgLog, LAMBDA m : m.kind = "response.audio.delta")
    IN  [j \in 1..Len(ds) |-> ds[j].delta]

\* The audio deltas that arrived while c, open, was in the telephony slot.
DeltasDeliverable(c) ==
    LET ds == SelectSeq(msgLog,
                 LAMBDA m : m.kind = "response.audio.delta" /\ m.slot = c /\ m.open)
    IN  [j \in 1..Len(ds) |-> ds[j].delta]

\* C28: frames are forwarded in arrival order.  The audio written to a
\* model connection is the sequence of the forwarded telephony payloads in
\* arrival order, and the media frames written to a telephony connection
\* carry, in arrival order, the audio deltas that arrived while that
\* connection was attached and open.
C28_ForwardedInOrder ==
    /\ \A k \in Handlers : AudioWritten(Md(k)) = AudioForwarded(Md(k))
    /\ \A h \in Handlers : DeltasWritten(Tw(h)) = DeltasDeliverable(Tw(h))

\* C28 as stated: the media frames written to the telephony connection
\* carry all the audio deltas of the model, in arrival order.
C28_AllDeltasInOrder ==
    /\ \A k \in Handlers : AudioWritten(Md(k)) = AudioForwarded(Md(k))
    /\ DeltasWritten(Tw("h1")) = DeltasArrived

\* C28, its case: two different payloads forwarded to the model and two
\* different deltas written to the telephony connection.
C28_TwoEachWay ==
    /\ AudioWritten(Md("h1")) = <<"EFGH", "ABCD">>
    /\ DeltasWritten(Tw("h1")) = <<"QRST", "WXYZ">>

====
